---- MODULE Spec2Model ----
(***************************************************************************)
(* Model of the hex codec (src/src/hex.rs) and of the tagged SHA256 hash   *)
(* value type with its serde adapter (src/src/sha256t.rs).                 *)
(*                                                                         *)
(* A text (&str) is a sequence of characters, each character its Unicode   *)
(* code point; its length s.len() is the length of its UTF-8 encoding in   *)
(* bytes.  A byte sequence is a sequence of numbers 0..255.  A value the   *)
(* program produces (a text, bytes, a hash, an error, a panic) is a record *)
(* [kind, v, x, y, inner].                                                 *)
(***************************************************************************)
EXTENDS Integers, Sequences, FiniteSets, TLC

VARIABLES hist, iter, sl, yielded

vars == <<hist, iter, sl, yielded>>

(***************************************************************************)
(* Bounds of the model.                                                    *)
(***************************************************************************)
\* Longest free tail of an input text, in characters.
MaxLen == 3
\* Longest free tail of an input byte sequence, in bytes.
MaxBytes == 2
\* Most operations a caller chains on one input.
MaxOps == 3
\* Most calls of HexIterator::next on one iterator.
MaxCalls == 3

(***************************************************************************)
(* Program constants.                                                      *)
(***************************************************************************)
LEN == 32
DISPLAY_BACKWARD == TRUE
\* The sizes of impl_fromhex_array! the model instantiates.
ArraySizes == {4, 32}

(***************************************************************************)
(* Values.                                                                 *)
(***************************************************************************)
Val(k, v, x, y) == [kind |-> k, v |-> v, x |-> x, y |-> y, inner |-> ""]

Str(s) == Val("Str", s, 0, 0)
Bytes(b) == Val("Bytes", b, 0, 0)
HashVal(b) == Val("Hash", b, 0, 0)
OddLengthString(n) == Val("OddLengthString", <<>>, n, 0)
InvalidChar(c) == Val("InvalidChar", <<>>, c, 0)
InvalidLength(e, a) == Val("InvalidLength", <<>>, e, a)
Panic == Val("Panic", <<>>, 0, 0)
\* Items of the iterator: Some(Ok(b)) and None; Some(Err(e)) is the error e.
SomeByte(b) == Val("Byte", <<>>, b, 0)
None == Val("None", <<>>, 0, 0)

IsErr(r) == r.kind \in {"OddLengthString", "InvalidChar", "InvalidLength"}

(***************************************************************************)
(* Characters and texts (std: char, str).                                  *)
(***************************************************************************)
\* char::len_utf8
len_utf8(c) == IF c < 128 THEN 1 ELSE IF c < 2048 THEN 2 ELSE IF c < 65536 THEN 3 ELSE 4

\* str::len: the length in bytes, the sum of len_utf8 over the characters
str_len(s) ==
    Len(s) + Cardinality({i \in 1..Len(s) : s[i] >= 128})
           + Cardinality({i \in 1..Len(s) : s[i] >= 2048})
           + Cardinality({i \in 1..Len(s) : s[i] >= 65536})

\* str::is_char_boundary: byte offset n falls between two characters
is_char_boundary(s, n) == \E k \in 0..Len(s) : str_len(SubSeq(s, 1, k)) = n

\* &s[n..] for a byte offset n that is a character boundary
str_from(s, n) ==
    LET k == CHOOSE j \in 0..Len(s) : str_len(SubSeq(s, 1, j)) = n
    IN  SubSeq(s, k + 1, Len(s))

NoDigit == 16

\* char::to_digit(16): 0..15, or NoDigit for None
to_digit_lower_only(c) ==
    IF c >= 48 /\ c <= 57 THEN c - 48
    ELSE IF c >= 97 /\ c <= 102 THEN c - 87
    ELSE NoDigit

to_digit(c) ==
    IF c >= 48 /\ c <= 57 THEN c - 48
    ELSE IF c >= 97 /\ c <= 102 THEN c - 87
    ELSE IF c >= 65 /\ c <= 70 THEN c - 55
    ELSE NoDigit

\* one digit of "{:x}"
LowerHexDigit(d) == IF d < 10 THEN 48 + d ELSE 87 + d

\* write!(fmt, "{:02x}", ch)
FormatByte(ch) == <<LowerHexDigit(ch \div 16), LowerHexDigit(ch % 16)>>

Reverse(q) == [i \in 1..Len(q) |-> q[Len(q) + 1 - i]]

(***************************************************************************)
(* HexIterator::next: the item and the iterator's slice after the call.    *)
(***************************************************************************)
HexIterator_next(s) ==
    IF str_len(s) % 2 = 1 THEN [item |-> OddLengthString(str_len(s)), sl |-> s]
    ELSE IF s = <<>> THEN [item |-> None, sl |-> s]
    ELSE IF Len(s) < 2 THEN [item |-> Panic, sl |-> s]
    ELSE LET hi == s[1]
             lo == s[2]
         IN  IF to_digit(hi) = NoDigit THEN [item |-> InvalidChar(hi), sl |-> s]
             ELSE IF to_digit(lo) = NoDigit THEN [item |-> InvalidChar(lo), sl |-> s]
             ELSE IF ~is_char_boundary(s, 2) THEN [item |-> Panic, sl |-> s]
             ELSE [item |-> SomeByte((to_digit(hi) * 16 + to_digit(lo)) % 256),
                   sl |-> str_from(s, 2)]

(***************************************************************************)
(* format_hex, format_hex_reverse, [u8]::to_hex.                           *)
(***************************************************************************)
\* for ch in data { write!(fmt, "{:02x}", *ch)?; }
format_hex(data) ==
    [i \in 1..(2 * Len(data)) |-> FormatByte(data[(i + 1) \div 2])[2 - (i % 2)]]

format_hex_reverse_forward(data) == format_hex(data)

format_hex_reverse(data) == format_hex(Reverse(data))

Slice_to_hex(data) == Str(format_hex(data))

(***************************************************************************)
(* Vec<u8>::from_hex and [u8; N]::from_hex.                                *)
(***************************************************************************)
\* One pass of `for byte in iter { vec.push(byte?); }`: st.ret is the value
\* returned, None while the loop runs.
VecLoopBody(st) ==
    IF st.ret # None THEN st
    ELSE LET r == HexIterator_next(st.sl)
         IN  IF r.item.kind = "None" THEN [st EXCEPT !.ret = Bytes(st.vec)]
             ELSE IF r.item.kind = "Byte"
                  THEN [sl |-> r.sl, vec |-> Append(st.vec, r.item.x), ret |-> None]
             ELSE [st EXCEPT !.ret = r.item]

RECURSIVE VecLoop(_, _)
\* the passes of the loop, four at a time, until it returns (a pass after the
\* return changes nothing); n passes are enough
VecLoop(st, n) ==
    IF st.ret # None \/ n <= 0 THEN st
    ELSE VecLoop(VecLoopBody(VecLoopBody(VecLoopBody(VecLoopBody(st)))), n - 4)

Vec_from_hex(s) ==
    IF str_len(s) % 2 = 1 THEN OddLengthString(str_len(s))
    ELSE VecLoop([sl |-> s, vec |-> <<>>, ret |-> None], Len(s) + 1).ret

\* One pass of `for (n, byte) in iter.enumerate() { ret[n] = byte?; }`
ArrayLoopBody(st) ==
    IF st.ret # None THEN st
    ELSE LET r == HexIterator_next(st.sl)
         IN  IF r.item.kind = "None" THEN [st EXCEPT !.ret = Bytes(st.arr)]
             ELSE IF r.item.kind = "Byte"
                  THEN IF st.n >= Len(st.arr) THEN [st EXCEPT !.ret = Panic]
                       ELSE [sl |-> r.sl, arr |-> [st.arr EXCEPT ![st.n + 1] = r.item.x],
                             n |-> st.n + 1, ret |-> None]
             ELSE [st EXCEPT !.ret = r.item]

RECURSIVE ArrayLoop(_, _)
\* the passes of the loop, four at a time, until it returns (a pass after the
\* return changes nothing); n passes are enough
ArrayLoop(st, n) ==
    IF st.ret # None \/ n <= 0 THEN st
    ELSE ArrayLoop(ArrayLoopBody(ArrayLoopBody(ArrayLoopBody(ArrayLoopBody(st)))), n - 4)

\* let mut ret = [0; N]; the loop; Ok(ret)
ArrayFill(N, s) ==
    ArrayLoop([sl |-> s, arr |-> [i \in 1..N |-> 0], n |-> 0, ret |-> None], Len(s) + 1).ret

Array_from_hex_size_first(N, s) ==
    IF str_len(s) = 2 * N THEN ArrayFill(N, s)
    ELSE InvalidLength(2 * N, str_len(s))

Array_from_hex(N, s) ==
    IF str_len(s) = 2 * N THEN ArrayFill(N, s)
    ELSE IF str_len(s) % 2 = 1 THEN OddLengthString(str_len(s))
    ELSE InvalidLength(2 * N, str_len(s))

(***************************************************************************)
(* sha256t::Hash<T>: from_slice, from_hex, to_hex, the byte-slice view.    *)
(***************************************************************************)
Hash_from_slice_at_most(b) ==
    IF Len(b) > 32 THEN InvalidLength(LEN, Len(b))
    ELSE HashVal([i \in 1..32 |-> IF i <= Len(b) THEN b[i] ELSE 0])

Hash_from_slice(b) ==
    IF Len(b) # 32 THEN InvalidLength(LEN, Len(b))
    ELSE HashVal(b)

Hash_from_hex_unreversed(s) ==
    IF str_len(s) # 2 * LEN THEN InvalidLength(2 * LEN, str_len(s))
    ELSE LET vec == Vec_from_hex(s)
         IN  IF vec.kind # "Bytes" THEN vec
             ELSE Hash_from_slice(vec.v)

Hash_from_hex(s) ==
    IF str_len(s) # 2 * LEN THEN InvalidLength(2 * LEN, str_len(s))
    ELSE LET vec == Vec_from_hex(s)
         IN  IF vec.kind # "Bytes" THEN vec
             ELSE Hash_from_slice(IF DISPLAY_BACKWARD THEN Reverse(vec.v) ELSE vec.v)

\* fmt::LowerHex for Hash<T> (hex_fmt_impl!), through ToHex for T: LowerHex
Hash_to_hex(h) ==
    Str(IF DISPLAY_BACKWARD THEN format_hex_reverse(h.v) ELSE format_hex(h.v))

\* &self[..] (index_impl!): the stored bytes in storage order
Hash_index(h) == Bytes(h.v)

(***************************************************************************)
(* std::str::from_utf8: the text a byte string encodes, or no text.        *)
(***************************************************************************)
IsCont(b) == b >= 128 /\ b <= 191

\* The length of the well-formed UTF-8 sequence at the head of b, 0 if none.
Utf8SeqLen(b) ==
    LET b1 == b[1]
        n  == Len(b)
    IN  IF b1 < 128 THEN 1
        ELSE IF b1 >= 194 /\ b1 <= 223
             THEN IF n >= 2 /\ IsCont(b[2]) THEN 2 ELSE 0
        ELSE IF b1 >= 224 /\ b1 <= 239
             THEN IF n >= 3 /\ IsCont(b[2]) /\ IsCont(b[3])
                     /\ (b1 = 224 => b[2] >= 160)
                     /\ (b1 = 237 => b[2] <= 159)
                  THEN 3 ELSE 0
        ELSE IF b1 >= 240 /\ b1 <= 244
             THEN IF n >= 4 /\ IsCont(b[2]) /\ IsCont(b[3]) /\ IsCont(b[4])
                     /\ (b1 = 240 => b[2] >= 144)
                     /\ (b1 = 244 => b[2] <= 143)
                  THEN 4 ELSE 0
        ELSE 0

\* The code point of the well-formed sequence of length n at the head of b.
Utf8CodePoint(b, n) ==
    IF n = 1 THEN b[1]
    ELSE IF n = 2 THEN (b[1] - 192) * 64 + (b[2] - 128)
    ELSE IF n = 3 THEN (b[1] - 224) * 4096 + (b[2] - 128) * 64 + (b[3] - 128)
    ELSE (b[1] - 240) * 262144 + (b[2] - 128) * 4096 + (b[3] - 128) * 64 + (b[4] - 128)

\* One step of the validation: the well-formed sequence at offset st.i is
\* read, or the byte string is refused.
Utf8Step(b, st) ==
    IF ~st.ok \/ st.i > Len(b) THEN st
    ELSE LET rest == SubSeq(b, st.i, Len(b))
             n == Utf8SeqLen(rest)
         IN  IF n = 0 THEN [ok |-> FALSE, i |-> st.i, s |-> <<>>]
             ELSE [ok |-> TRUE, i |-> st.i + n, s |-> Append(st.s, Utf8CodePoint(rest, n))]

RECURSIVE Utf8Loop(_, _, _)
\* the steps of the validation, four at a time (a step after the end changes
\* nothing); n steps are enough
Utf8Loop(b, st, n) ==
    IF ~st.ok \/ n <= 0 THEN st
    ELSE Utf8Loop(b, Utf8Step(b, Utf8Step(b, Utf8Step(b, Utf8Step(b, st)))), n - 4)

from_utf8(b) ==
    LET st == Utf8Loop(b, [ok |-> TRUE, i |-> 1, s |-> <<>>], Len(b))
    IN  [ok |-> st.ok, s |-> st.s]

(***************************************************************************)
(* The serde adapter: Serialize, HexVisitor, BytesVisitor, Deserialize.    *)
(***************************************************************************)
\* E::custom(err): the error a decode failure becomes
SerdeCustom(e) == [e EXCEPT !.kind = "custom", !.inner = e.kind]
\* E::invalid_value(Unexpected::Bytes(v), &self)
SerdeInvalidValue(v) == Val("invalid_value", v, 0, 0)
\* E::invalid_length(v.len(), &"32")
SerdeInvalidLength(n) == Val("invalid_length", <<>>, n, 32)
\* serde's default Visitor::visit_str: E::invalid_type(Unexpected::Str(v), &self)
SerdeInvalidType(v) == Val("invalid_type", v, 0, 0)

\* Result::map_err(E::custom)
MapErrCustom(r) == IF IsErr(r) THEN SerdeCustom(r) ELSE r

Hash_serialize(human_readable, h) ==
    IF human_readable THEN Hash_to_hex(h) ELSE Hash_index(h)

HexVisitor_visit_str(v) == MapErrCustom(Hash_from_hex(v))

HexVisitor_visit_bytes_raw(v) ==
    IF Len(v) = 32 THEN Hash_from_slice(v)
    ELSE IF from_utf8(v).ok THEN MapErrCustom(Hash_from_hex(from_utf8(v).s))
    ELSE SerdeInvalidValue(v)

HexVisitor_visit_bytes(v) ==
    IF from_utf8(v).ok THEN MapErrCustom(Hash_from_hex(from_utf8(v).s))
    ELSE SerdeInvalidValue(v)

BytesVisitor_visit_bytes(v) ==
    IF IsErr(Hash_from_slice(v)) THEN SerdeInvalidLength(Len(v))
    ELSE Hash_from_slice(v)

\* The visitor method the deserializer calls is decided by the shape of the
\* value it holds: a text (visit_str) or a byte string (visit_bytes).
Hash_deserialize(human_readable, d) ==
    IF human_readable
    THEN IF d.kind = "Str" THEN HexVisitor_visit_str(d.v) ELSE HexVisitor_visit_bytes(d.v)
    ELSE IF d.kind = "Str" THEN SerdeInvalidType(d.v) ELSE BytesVisitor_visit_bytes(d.v)

(***************************************************************************)
(* The inputs a caller can hand to the library.                            *)
(***************************************************************************)
\* '0', 'F', 'Z', U+00AB (two bytes), U+20AC (three bytes)
Alphabet == {48, 70, 90, 171, 8364}
\* 0x00, '0', 0xab, 0xc2, 0xff
ByteVals == {0, 48, 171, 194, 255}

SeqsUpTo(S, n) == UNION {[1..k -> S] : k \in 0..n}

\* k lowercase hex digits
HexPad(k) == [i \in 1..k |-> LowerHexDigit((5 * i) % 16)]
\* k arbitrary bytes
RawPad(k) == [i \in 1..k |-> (37 * i + 11) % 256]

Texts == {HexPad(k) \o t : k \in {0, 5, 62, 63, 64}, t \in SeqsUpTo(Alphabet, MaxLen)}

ByteStrings ==
    {RawPad(k) \o t : k \in {0, 31, 32}, t \in SeqsUpTo(ByteVals, MaxBytes)}
    \cup {HexPad(k) \o t : k \in {32, 63, 64}, t \in SeqsUpTo(ByteVals, MaxBytes)}

(***************************************************************************)
(* The caller: one input, a chain of operations each applied to the value  *)
(* the previous one returned, or an iterator driven over the input text.   *)
(***************************************************************************)
Entry(op, arg, val) == [op |-> op, arg |-> arg, val |-> val]

Last == hist[Len(hist)]
Cur == Last.val

Init ==
    /\ \E v \in {Str(t) : t \in Texts} \cup {Bytes(b) : b \in ByteStrings} :
          hist = <<Entry("input", 0, v)>>
    /\ iter = "none"
    /\ sl = <<>>
    /\ yielded = <<>>

Apply(op, arg, val) ==
    /\ Len(hist) <= MaxOps
    /\ hist' = Append(hist, Entry(op, arg, val))
    /\ UNCHANGED <<iter, sl, yielded>>

\* Vec::<u8>::from_hex(s)
VecFromHex ==
    /\ Cur.kind = "Str"
    /\ Apply("Vec::from_hex", 0, Vec_from_hex(Cur.v))

\* <[u8; N]>::from_hex(s)
ArrayFromHex ==
    /\ Cur.kind = "Str"
    /\ \E N \in ArraySizes : Apply("Array::from_hex", N, Array_from_hex(N, Cur.v))

\* data.to_hex()
SliceToHex ==
    /\ Cur.kind = "Bytes"
    /\ Apply("Slice::to_hex", 0, Slice_to_hex(Cur.v))

\* Hash::<T>::from_slice(data)
HashFromSlice ==
    /\ Cur.kind = "Bytes"
    /\ Apply("Hash::from_slice", 0, Hash_from_slice(Cur.v))

\* Hash::<T>::from_hex(s)
HashFromHex ==
    /\ Cur.kind = "Str"
    /\ Apply("Hash::from_hex", 0, Hash_from_hex(Cur.v))

\* hash.to_hex()
HashToHex ==
    /\ Cur.kind = "Hash"
    /\ Apply("Hash::to_hex", 0, Hash_to_hex(Cur))

\* hash.serialize(serializer)
Serialize ==
    /\ Cur.kind = "Hash"
    /\ \E hr \in BOOLEAN :
          Apply("serialize", IF hr THEN 1 ELSE 0, Hash_serialize(hr, Cur))

\* Hash::<T>::deserialize(deserializer), the deserializer holding a text or a
\* byte string
Deserialize ==
    /\ Cur.kind \in {"Str", "Bytes"}
    /\ \E hr \in BOOLEAN :
          Apply("deserialize", IF hr THEN 1 ELSE 0, Hash_deserialize(hr, Cur))

\* HexIterator { sl: s }
IterNew ==
    /\ Cur.kind = "Str"
    /\ iter = "none"
    /\ Len(hist) <= MaxOps
    /\ hist' = Append(hist, Entry("HexIterator", 0, Val("HexIterator", Cur.v, 0, 0)))
    /\ iter' = "live"
    /\ sl' = Cur.v
    /\ yielded' = <<>>

\* iter.next(); a panic ends the caller
IterNext ==
    /\ iter = "live"
    /\ Len(yielded) < MaxCalls
    /\ LET r == HexIterator_next(sl)
       IN  /\ yielded' = Append(yielded, r.item)
           /\ sl' = r.sl
           /\ iter' = IF r.item.kind = "Panic" THEN "panicked" ELSE "live"
    /\ UNCHANGED hist

Next ==
    \/ VecFromHex
    \/ ArrayFromHex
    \/ SliceToHex
    \/ HashFromSlice
    \/ HashFromHex
    \/ HashToHex
    \/ Serialize
    \/ Deserialize
    \/ IterNew
    \/ IterNext

Spec == Init /\ [][Next]_vars

(***************************************************************************)
(* Reference notions the properties are stated with.                       *)
(***************************************************************************)
Applied(op) == Len(hist) >= 2 /\ Last.op = op
\* The value the last operation was applied to.
Arg == hist[Len(hist) - 1].val
\* The last operations, oldest first, were ops.
Chain(ops) ==
    /\ Len(hist) > Len(ops)
    /\ \A i \in 1..Len(ops) : hist[Len(hist) - Len(ops) + i].op = ops[i]
\* The value the chain of the last n operations started from.
ChainArg(n) == hist[Len(hist) - n].val

HexChars == <<48, 49, 50, 51, 52, 53, 54, 55, 56, 57, 97, 98, 99, 100, 101, 102>>
IsLowerHex(c) == \E d \in 1..16 : HexChars[d] = c
IsHexDigit(c) == (c >= 48 /\ c <= 57) \/ (c >= 65 /\ c <= 70) \/ (c >= 97 /\ c <= 102)
DigitValue(c) == IF c <= 57 THEN c - 48 ELSE IF c <= 70 THEN c - 55 ELSE c - 87
Lowercase(s) == [i \in 1..Len(s) |-> IF s[i] >= 65 /\ s[i] <= 90 THEN s[i] + 32 ELSE s[i]]
IsValidHexText(s) == Len(s) % 2 = 0 /\ \A i \in 1..Len(s) : IsHexDigit(s[i])
\* The bytes a valid hex text stands for, 16*hi + lo per pair.
DecodeRef(s) == [i \in 1..(Len(s) \div 2) |-> 16 * DigitValue(s[2 * i - 1]) + DigitValue(s[2 * i])]
\* The lowercase hex text of a byte sequence.
EncodeRef(b) ==
    [i \in 1..(2 * Len(b)) |->
        IF i % 2 = 1 THEN HexChars[(b[(i + 1) \div 2] \div 16) + 1]
        ELSE HexChars[(b[i \div 2] % 16) + 1]]
FirstInvalid(s) ==
    s[CHOOSE i \in 1..Len(s) : ~IsHexDigit(s[i]) /\ \A j \in 1..(i - 1) : IsHexDigit(s[j])]
IsTyped(r) == r.kind \in {"OddLengthString", "InvalidChar", "InvalidLength"}

(***************************************************************************)
(* C1: no decode or construct operation panics on malformed input: decode, *)
(* decode_fixed, TaggedHash::from_hex and every HexIterator::next return a *)
(* value or one of OddLengthString / InvalidChar / InvalidLength.          *)
(***************************************************************************)
C1_NoPanicOnMalformedInput ==
    /\ (Applied("Vec::from_hex") \/ Applied("Array::from_hex"))
          => (Cur.kind = "Bytes" \/ IsTyped(Cur))
    /\ Applied("Hash::from_hex") => (Cur.kind = "Hash" \/ IsTyped(Cur))
    /\ \A i \in DOMAIN yielded : yielded[i].kind \in {"Byte", "None"} \/ IsTyped(yielded[i])

(***************************************************************************)
(* C2: hex round trip.  encode(B) is a text of 2*len(B) lowercase hex      *)
(* digits and decode(encode(B)) = B; for a valid even-length hex text T in *)
(* either case decode(T) = decode(lowercase(T)) and                        *)
(* encode(decode(T)) = lowercase(T).                                       *)
(***************************************************************************)
C2_HexRoundTrip ==
    /\ Applied("Slice::to_hex") =>
          /\ Cur.kind = "Str"
          /\ Len(Cur.v) = 2 * Len(Arg.v)
          /\ str_len(Cur.v) = 2 * Len(Arg.v)
          /\ \A i \in 1..Len(Cur.v) : IsLowerHex(Cur.v[i])
    /\ Chain(<<"Slice::to_hex", "Vec::from_hex">>) => Cur = ChainArg(2)
    /\ (Applied("Vec::from_hex") /\ IsValidHexText(Arg.v)) =>
          /\ Cur.kind = "Bytes"
          /\ Cur = Vec_from_hex(Lowercase(Arg.v))
    /\ (Chain(<<"Vec::from_hex", "Slice::to_hex">>) /\ IsValidHexText(ChainArg(2).v)) =>
          Cur = Str(Lowercase(ChainArg(2).v))

\* An uppercase text was decoded and re-encoded to a different text.
C2_Witness ==
    /\ Chain(<<"Vec::from_hex", "Slice::to_hex">>)
    /\ IsValidHexText(ChainArg(2).v)
    /\ \E i \in 1..Len(ChainArg(2).v) : ChainArg(2).v[i] = 70
    /\ Cur.kind = "Str"
    /\ Cur.v # ChainArg(2).v

(***************************************************************************)
(* C3: error precedence of decode.  An odd length gives                    *)
(* OddLengthString(len) whatever the characters; otherwise a non-hex       *)
(* character gives InvalidChar of the first invalid character from the     *)
(* left; otherwise the result is one byte 16*hi+lo per pair.               *)
(***************************************************************************)
C3_DecodeErrorPrecedence ==
    Applied("Vec::from_hex") =>
        LET s == Arg.v
        IN  IF str_len(s) % 2 = 1 THEN Cur = OddLengthString(str_len(s))
            ELSE IF \E i \in 1..Len(s) : ~IsHexDigit(s[i]) THEN Cur = InvalidChar(FirstInvalid(s))
            ELSE Cur = Bytes(DecodeRef(s))

(***************************************************************************)
(* C4: a text whose first character is non-ASCII makes decode fail with    *)
(* InvalidChar of that character.                                          *)
(***************************************************************************)
C4_NonAsciiFirstChar ==
    (Applied("Vec::from_hex") /\ Arg.v # <<>> /\ Arg.v[1] >= 128) => Cur = InvalidChar(Arg.v[1])

(***************************************************************************)
(* C5: decode_fixed<N>.  A text of length other than 2N gives              *)
(* OddLengthString(len) when len is odd and InvalidLength(2N, len) when it *)
(* is even; a text of length 2N gives what decode gives, N bytes on        *)
(* success.                                                                *)
(***************************************************************************)
C5_DecodeFixed ==
    Applied("Array::from_hex") =>
        LET N == Last.arg
            s == Arg.v
            n == str_len(s)
        IN  IF n # 2 * N
            THEN Cur = (IF n % 2 = 1 THEN OddLengthString(n) ELSE InvalidLength(2 * N, n))
            ELSE /\ Cur = Vec_from_hex(s)
                 /\ Cur.kind = "Bytes" => Len(Cur.v) = N

\* An odd-length text longer than 2N, holding an invalid character, was
\* decoded into a fixed size.
C5_Witness ==
    /\ Applied("Array::from_hex")
    /\ Cur.kind = "OddLengthString"
    /\ Cur.x > 2 * Last.arg
    /\ \E i \in 1..Len(Arg.v) : ~IsHexDigit(Arg.v[i])

(***************************************************************************)
(* C6: TaggedHash round trip.  For 32 bytes S, to_hex(from_slice(S)) has   *)
(* length 64 and from_hex of it succeeds and equals from_slice(S).         *)
(***************************************************************************)
C6_HashRoundTrip ==
    /\ Chain(<<"Hash::from_slice", "Hash::to_hex">>) =>
          /\ Cur.kind = "Str"
          /\ Len(Cur.v) = 64
          /\ str_len(Cur.v) = 64
    /\ Chain(<<"Hash::from_slice", "Hash::to_hex", "Hash::from_hex">>) =>
          /\ Cur.kind = "Hash"
          /\ Cur = ChainArg(2)
          /\ Cur.v = ChainArg(3).v

\* A hash built from 32 bytes that do not read the same backwards went
\* through to_hex and from_hex.
C6_Witness ==
    /\ Chain(<<"Hash::from_slice", "Hash::to_hex", "Hash::from_hex">>)
    /\ Cur.kind = "Hash"
    /\ Len(ChainArg(3).v) = 32
    /\ ChainArg(3).v # Reverse(ChainArg(3).v)

(***************************************************************************)
(* C7: the display reversal is applied once in each direction.  to_hex of  *)
(* from_slice([b0..b31]) is the hex encoding of [b31..b0]; from_hex of a   *)
(* valid 64-character text stores the reverse of its decoding; from_slice  *)
(* stores its input unreversed.                                            *)
(***************************************************************************)
C7_DisplayReversal ==
    /\ Chain(<<"Hash::from_slice", "Hash::to_hex">>) =>
          Cur = Str(EncodeRef(Reverse(ChainArg(2).v)))
    /\ (Applied("Hash::from_hex") /\ IsValidHexText(Arg.v) /\ Len(Arg.v) = 64) =>
          /\ Cur.kind = "Hash"
          /\ Hash_index(Cur) = Bytes(Reverse(DecodeRef(Arg.v)))
    /\ (Applied("Hash::from_slice") /\ Cur.kind = "Hash") => Hash_index(Cur) = Bytes(Arg.v)

\* A valid 64-character text with uppercase digits, not the same read
\* bytewise backwards, was parsed into a hash.
C7_Witness ==
    /\ Applied("Hash::from_hex")
    /\ Cur.kind = "Hash"
    /\ Cur.v # Reverse(Cur.v)
    /\ \E i \in 1..Len(Arg.v) : Arg.v[i] = 70

(***************************************************************************)
(* C8: TaggedHash length checks.  from_slice succeeds exactly on 32 bytes, *)
(* storing them verbatim, and otherwise fails with InvalidLength(32, len); *)
(* from_hex of a text of length other than 64 fails with                   *)
(* InvalidLength(64, len), also when the length is odd.                    *)
(***************************************************************************)
C8_HashLengthChecks ==
    /\ Applied("Hash::from_slice") =>
          Cur = (IF Len(Arg.v) = 32 THEN HashVal(Arg.v) ELSE InvalidLength(32, Len(Arg.v)))
    /\ (Applied("Hash::from_hex") /\ str_len(Arg.v) # 64) =>
          Cur = InvalidLength(64, str_len(Arg.v))

\* from_slice was refused 31 bytes.
C8_Witness ==
    /\ Applied("Hash::from_slice")
    /\ Len(Arg.v) = 31
    /\ Cur = InvalidLength(32, 31)

(***************************************************************************)
(* C9, as claimed: human-readable deserialization decodes a text as        *)
(* reversed hex via from_hex and uses a raw byte string of length 32       *)
(* directly via from_slice, the hash storing exactly those 32 bytes.       *)
(***************************************************************************)
C9_RawBytesUsedDirectly ==
    (Applied("deserialize") /\ Last.arg = 1) =>
        /\ Arg.kind = "Str" => Cur = MapErrCustom(Hash_from_hex(Arg.v))
        /\ (Arg.kind = "Bytes" /\ Len(Arg.v) = 32) => Cur = HashVal(Arg.v)

(***************************************************************************)
(* C9, amended: human-readable deserialization decodes both input shapes   *)
(* as reversed hex via from_hex: a text directly, a byte string after      *)
(* reading it as UTF-8 text (64 bytes of ASCII hex digits give the hash    *)
(* storing the reverse of their decoding; a byte string that is not UTF-8  *)
(* is an invalid value).  A raw byte string of length 32 is never used     *)
(* directly: it is refused, as a text of length 32 instead of 64 or as an  *)
(* invalid value.                                                          *)
(***************************************************************************)
C9_BytesDecodedAsHexText ==
    (Applied("deserialize") /\ Last.arg = 1) =>
        /\ (Arg.kind = "Str" /\ IsValidHexText(Arg.v) /\ Len(Arg.v) = 64) =>
              Cur = HashVal(Reverse(DecodeRef(Arg.v)))
        /\ (Arg.kind = "Str" /\ str_len(Arg.v) # 64) =>
              Cur = SerdeCustom(InvalidLength(64, str_len(Arg.v)))
        /\ (Arg.kind = "Bytes" /\ \A i \in 1..Len(Arg.v) : Arg.v[i] < 128) =>
              Cur = Hash_deserialize(TRUE, Str(Arg.v))
        /\ (Arg.kind = "Bytes" /\ IsValidHexText(Arg.v) /\ Len(Arg.v) = 64) =>
              Cur = HashVal(Reverse(DecodeRef(Arg.v)))
        /\ (Arg.kind = "Bytes" /\ \E i \in 1..Len(Arg.v) : Arg.v[i] = 255) =>
              Cur = SerdeInvalidValue(Arg.v)
        /\ (Arg.kind = "Bytes" /\ Len(Arg.v) = 32) =>
              \/ Cur = SerdeCustom(InvalidLength(64, 32))
              \/ Cur = SerdeInvalidValue(Arg.v)

\* A byte string of 64 ASCII hex digits was deserialized into a hash.
C9_Witness ==
    /\ Applied("deserialize")
    /\ Last.arg = 1
    /\ Arg.kind = "Bytes"
    /\ Len(Arg.v) = 64
    /\ Cur.kind = "Hash"

(***************************************************************************)
(* C10: the lazy decode sequence is finite and stops at the error.         *)
(* HexIterator::next yields Ok(byte) for each pair before the first        *)
(* failing position k, then what decode reports for position k, and then   *)
(* the sequence has ended: every later call returns None; on valid input   *)
(* None comes after exactly len/2 bytes.                                   *)
(***************************************************************************)
\* The number of leading pairs next decodes before the failing position.
LeadingPairs(s) ==
    IF str_len(s) % 2 = 1 THEN 0
    ELSE Cardinality({i \in 1..(Len(s) \div 2) :
                        \A j \in 1..(2 * i) : IsHexDigit(s[j])})

C10_LazySequenceEnds ==
    iter # "none" =>
        LET s == Cur.v
            k == LeadingPairs(s)
        IN  \A i \in DOMAIN yielded :
               IF i <= k THEN yielded[i] = SomeByte(DecodeRef(s)[i])
               ELSE IF i = k + 1 /\ Vec_from_hex(s).kind # "Bytes"
                    THEN yielded[i] = Vec_from_hex(s)
               ELSE yielded[i] = None

====
